---- MODULE Spec2Model ----
(***************************************************************************)
(* MedGuardian: model-artifact loading (app.py: _is_probable_pickle,       *)
(* _safe_load, _validate_model, load_models), probability normalisation    *)
(* (safe_predict_proba), the Health Scan prediction flows, and the report  *)
(* side (report.py: rename_keys, normal_ranges, check_flag,                *)
(* generate_pdf_report).                                                   *)
(*                                                                         *)
(* Numbers that are floats in the program are fixed-point integers here:   *)
(* probabilities and sigmoid values are in thousandths (1000 = 1.0), risk  *)
(* percentages in hundredths of a percent (7230 = 72.30 %).                *)
(***************************************************************************)
EXTENDS Integers, Sequences, FiniteSets, TLC

VARIABLES
    idx,        \* load_models: number of entries of `paths` already handled
    models,     \* load_models: the local dict `models` (key -> object or None)
    cand,       \* the file found at the path of the entry handled last
    sniff,      \* verdict of _is_probable_pickle in that iteration
    loadExc,    \* exception _safe_load raised in that iteration
    loadOps,    \* file operations of that iteration, in order
    loaded,     \* TRUE once load_models has returned its triple
    runs,       \* script runs that have called load_models() (app.py:234)
    attempts,   \* per key: iterations of load_models executed for its path
    nModel,     \* safe_predict_proba: the argument m
    nProba,     \* what m.predict_proba(X) does
    nDecision,  \* what m.decision_function(X) does
    nOut,       \* outcome of the call of safe_predict_proba
    reports,    \* st.session_state.reports
    run,        \* what the Health Scan run that handled a Predict button did
    normal_ranges,  \* report.py: the module-level dict normal_ranges
    rename_keys,    \* report.py: the module-level dict rename_keys
    fParam,     \* check_flag: the argument param
    fValue,     \* check_flag: the argument value
    fOut,       \* outcome of the call of check_flag
    data,       \* generate_pdf_report: the caller's mapping `data`
    doc,        \* outcome of generate_pdf_report: what it put in the document
    target,     \* the file at DIABETES_MODEL_PATH
    dlLog,      \* the calls of download_model_from_gdrive so far, in order
    user,       \* st.session_state.user
    chat_history,      \* st.session_state.chat_history
    last_active,       \* st.session_state.last_active (0: None)
    delete_candidate,  \* st.session_state['delete_candidate']
    clock,        \* time.time(), in minutes
    event,      \* the widget event that started the current script run
    pc,         \* the current script run's position in app.py
    page        \* the page content the current script run has rendered

loaderVars == <<idx, models, cand, sniff, loadExc, loadOps, loaded, runs, attempts>>
normVars == <<nModel, nProba, nDecision, nOut>>
flowVars == <<reports, run>>
reportingVars == <<normal_ranges, rename_keys, fParam, fValue, fOut, data, doc>>
downloadVars == <<target, dlLog>>
sessionVars == <<user, chat_history, last_active, delete_candidate, clock, event, pc, page>>
appVars == <<downloadVars, sessionVars>>
vars == <<loaderVars, normVars, flowVars, reportingVars, appVars>>

(***************************************************************************)
(* Values                                                                  *)
(***************************************************************************)
Caps == {"predict", "predict_proba", "decision_function"}

\* A Python object as far as the program looks at it: None, or an object with
\* the set of operations hasattr() finds on it.
None == [none |-> TRUE, caps |-> {}]
Obj(c) == [none |-> FALSE, caps |-> c]

\* What a pickle can hold.
Objects == {None} \cup {Obj(c) : c \in SUBSET Caps}

\* hasattr(obj, name); None has none of the operations.
HasAttr(o, name) == ~o.none /\ name \in o.caps

NotCalled == "not-called"
Unbound == "unbound"

\* An exception: its type and the underlying failures it carries, in its
\* message or on its __context__ chain.
Exc(t, c) == [type |-> t, carries |-> c]
NoExc == Exc("none", {})

\* app.py:189-193, in dict insertion order
Keys == <<"diabetes", "heart", "kidney">>

MIN_SIZE == 100
HEAD_LEN == 4

\* Headers (byte values) of candidate files.
PickleHead == <<128, 4, 149, 0>>      \* \x80 : pickle protocol 2+
NumpyHead  == <<147, 78, 85, 77>>     \* \x93NUM
OneHead    == <<1, 0, 0, 0>>          \* \x01
DoctypeHead == <<60, 33, 68, 79>>     \* <!DO
HtmlHead   == <<60, 104, 116, 109>>   \* <htm
XmlHead    == <<60, 63, 120, 109>>    \* <?xm
JsonHead   == <<123, 34, 97, 34>>     \* {"a"
UpperHtmlHead == <<60, 72, 84, 77>>   \* <HTM
ZipHead    == <<80, 75, 3, 4>>        \* PK\x03\x04

FullHeads == {PickleHead, NumpyHead, OneHead, DoctypeHead, HtmlHead, XmlHead,
              JsonHead, UpperHtmlHead, ZipHead}

MaxSizeStep == 1

\* File sizes: empty, one byte, around the threshold, and larger ones.
Sizes == {0, 1, MIN_SIZE - 1, MIN_SIZE} \cup {MIN_SIZE * (4 + k) : k \in 1..MaxSizeStep}

Min(a, b) == IF a < b THEN a ELSE b

\* f.read(4) returns at most 4 bytes, fewer when the file is shorter.
Truncate(h, n) == SubSeq(h, 1, Min(Len(h), n))

\* Headers of files a loader can accept: a pickle of protocol 2 or later, and
\* a binary container (a compressed joblib dump). The bytes '<', '{', 0x93 and
\* 0x01 start no pickle and no joblib container.
LoadableHeads == {PickleHead, ZipHead}

\* What the two loaders make of a file's bytes: whether joblib.load and
\* pickle.load succeed, and the object they yield.
Content(j, p, o) == [jobOK |-> j, pickOK |-> p, obj |-> o]
Unloadable == Content(FALSE, FALSE, None)
Contents ==
    {Unloadable}
    \cup {Content(jp[1], jp[2], o) :
            jp \in {<<TRUE, TRUE>>, <<TRUE, FALSE>>, <<FALSE, TRUE>>}, o \in Objects}

\* A file on disk: its size, its first bytes, whether open() succeeds, and its
\* content. A file that cannot be opened or has no loadable header is accepted
\* by neither loader.
File(sz, h, r, c) ==
    [exists |-> TRUE, size |-> sz, head |-> Truncate(h, sz), readable |-> r,
     jobOK |-> c.jobOK, pickOK |-> c.pickOK, obj |-> c.obj]

Files ==
    UNION { {File(x[1], x[2], x[3], c) :
                c \in IF x[3] /\ Truncate(x[2], x[1]) \in LoadableHeads
                      THEN Contents ELSE {Unloadable}} :
            x \in Sizes \X FullHeads \X BOOLEAN }

Absent == [exists |-> FALSE, size |-> 0, head |-> <<>>, readable |-> FALSE,
           jobOK |-> FALSE, pickOK |-> FALSE, obj |-> None]

Disk == {Absent} \cup Files

(***************************************************************************)
(* Artifact Format Sniffer: _is_probable_pickle, app.py:135-152            *)
(***************************************************************************)
\* bytes.startswith
StartsWith(h, prefix) ==
    /\ Len(prefix) <= Len(h)
    /\ SubSeq(h, 1, Len(prefix)) = prefix

MagicPrefixes == {<<128>>, <<147>>, <<1>>}
TextPrefixes == {DoctypeHead, <<123>>, HtmlHead, XmlHead}

\* Variant: the magic-byte test placed before the size test.
IsProbablePickleMagicFirst(f) ==
    IF ~f.exists THEN FALSE
    ELSE IF f.readable /\ (\E m \in MagicPrefixes : StartsWith(f.head, m)) THEN TRUE
    ELSE IF f.size < MIN_SIZE THEN FALSE
    ELSE IF ~f.readable THEN FALSE
    ELSE ~(\E t \in TextPrefixes : StartsWith(Truncate(f.head, HEAD_LEN), t))

\* Variant: the '{' signature left out of the text test.
IsProbablePickleNoBrace(f) ==
    IF ~f.exists THEN FALSE
    ELSE IF f.size < MIN_SIZE THEN FALSE
    ELSE IF ~f.readable THEN FALSE
    ELSE LET head == Truncate(f.head, HEAD_LEN) IN
         IF \E m \in MagicPrefixes : StartsWith(head, m) THEN TRUE
         ELSE ~(\E t \in TextPrefixes \ {<<123>>} : StartsWith(head, t))

IsProbablePickleMagicOnly(f) ==
    IF ~f.exists THEN FALSE
    ELSE IF f.size < MIN_SIZE THEN FALSE
    ELSE IF ~f.readable THEN FALSE
    ELSE \E m \in MagicPrefixes : StartsWith(Truncate(f.head, HEAD_LEN), m)

IsProbablePickle(f) ==
    IF ~f.exists THEN FALSE                       \* os.path.getsize raises
    ELSE IF f.size < MIN_SIZE THEN FALSE
    ELSE IF ~f.readable THEN FALSE                \* open raises
    ELSE LET head == Truncate(f.head, HEAD_LEN) IN
         IF \E m \in MagicPrefixes : StartsWith(head, m) THEN TRUE
         ELSE IF \E t \in TextPrefixes : StartsWith(head, t) THEN FALSE
         ELSE TRUE

(***************************************************************************)
(* Artifact Loader: _safe_load, app.py:154-175                             *)
(***************************************************************************)
\* `except Exception as e_job:` (app.py:165): Python unbinds the target name
\* when the except clause ends, so after line 166 e_job has no value.
NameAfterExceptClause(e) == Unbound

\* The raise statement of app.py:175, evaluated inside the handler of
\* e_pickle. Formatting the message reads e_job; reading an unbound local
\* raises UnboundLocalError, whose __context__ is the exception being handled.
RaiseBothFailed(e_job, e_pickle) ==
    IF e_job = Unbound
    THEN Exc("UnboundLocalError", {e_pickle})
    ELSE Exc("RuntimeError", {e_job, e_pickle})

SafeLoadPickleAlways(f) ==
    IF ~f.exists
    THEN [obj |-> None, exc |-> Exc("FileNotFoundError", {}), verdict |-> NotCalled,
          ops |-> <<"exists">>]
    ELSE IF ~IsProbablePickle(f)
    THEN [obj |-> None, exc |-> Exc("ValueError", {}), verdict |-> "Implausible",
          ops |-> <<"exists", "sniff">>]
    ELSE IF f.jobOK \/ f.pickOK
    THEN [obj |-> f.obj, exc |-> NoExc, verdict |-> "Plausible",
          ops |-> <<"exists", "sniff", "joblib.load", "pickle.load">>]
    ELSE [obj |-> None, exc |-> RaiseBothFailed(NameAfterExceptClause("joblib-error"),
                                                "pickle-error"),
          verdict |-> "Plausible",
          ops |-> <<"exists", "sniff", "joblib.load", "pickle.load">>]

\* Result of _safe_load: the object returned (when exc = NoExc), the exception
\* raised, and the file operations performed, in order.
SafeLoad(f) ==
    IF ~f.exists
    THEN [obj |-> None, exc |-> Exc("FileNotFoundError", {}), verdict |-> NotCalled,
          ops |-> <<"exists">>]
    ELSE IF ~IsProbablePickle(f)
    THEN [obj |-> None, exc |-> Exc("ValueError", {}), verdict |-> "Implausible",
          ops |-> <<"exists", "sniff">>]
    ELSE IF f.jobOK
    THEN [obj |-> f.obj, exc |-> NoExc, verdict |-> "Plausible",
          ops |-> <<"exists", "sniff", "joblib.load">>]
    ELSE LET e_job == NameAfterExceptClause("joblib-error") IN
         IF f.pickOK
         THEN [obj |-> f.obj, exc |-> NoExc, verdict |-> "Plausible",
               ops |-> <<"exists", "sniff", "joblib.load", "pickle.load">>]
         ELSE [obj |-> None, exc |-> RaiseBothFailed(e_job, "pickle-error"),
               verdict |-> "Plausible",
               ops |-> <<"exists", "sniff", "joblib.load", "pickle.load">>]

\* Variant: only the None test, no hasattr(obj, "predict").
ValidateModelNotNone(o) == ~o.none

\* _validate_model, app.py:177-184
ValidateModel(o) ==
    IF o.none THEN FALSE
    ELSE IF ~HasAttr(o, "predict") THEN FALSE
    ELSE TRUE

(***************************************************************************)
(* load_models, app.py:186-212: one iteration of `for key, p in paths`     *)
(***************************************************************************)
\* The value stored in models[key] for the file found at the key's path.
LoadSlot(f) ==
    IF f.exists
    THEN LET r == SafeLoad(f) IN
         IF r.exc # NoExc THEN None              \* except Exception: line 207
         ELSE IF ValidateModel(r.obj) THEN r.obj
         ELSE None
    ELSE None

NoModels == [k \in {} |-> None]

InitLoader ==
    /\ idx = 0
    /\ models = NoModels
    /\ cand = Absent
    /\ sniff = NotCalled
    /\ loadExc = NoExc
    /\ loadOps = <<>>
    /\ loaded = FALSE
    /\ runs = 0
    /\ attempts = [k \in {Keys[i] : i \in 1..Len(Keys)} |-> 0]

LoadKeyAbortOnFailure ==
    /\ ~loaded
    /\ idx < Len(Keys)
    /\ \E f \in Disk :
        LET key == Keys[idx + 1]
            r == SafeLoad(f)
        IN /\ cand' = f
           /\ models' = [k \in DOMAIN models \cup {key} |->
                            IF k = key THEN LoadSlot(f) ELSE models[k]]
           /\ sniff' = IF f.exists THEN r.verdict ELSE NotCalled
           /\ loadExc' = IF f.exists THEN r.exc ELSE NoExc
           /\ loadOps' = IF f.exists THEN <<"exists">> \o r.ops ELSE <<"exists">>
           /\ idx' = IF f.exists /\ r.exc # NoExc THEN Len(Keys) ELSE idx + 1
    /\ attempts' = [attempts EXCEPT ![Keys[idx + 1]] = @ + 1]
    /\ UNCHANGED <<loaded, runs, normVars, flowVars, reportingVars, appVars>>

\* One iteration.  f is the file os.path.exists finds at the path (line 197);
\* `gone`: the file is removed before _safe_load looks again (line 156).
LoadKey ==
    /\ ~loaded
    /\ idx < Len(Keys)
    /\ \E f \in Disk, gone \in BOOLEAN :
        LET key == Keys[idx + 1]
            seen == IF gone THEN Absent ELSE f
            r == SafeLoad(seen)
        IN /\ cand' = seen
           /\ models' = [k \in DOMAIN models \cup {key} |->
                            IF k = key THEN LoadSlot(seen) ELSE models[k]]
           /\ sniff' = IF f.exists THEN r.verdict ELSE NotCalled
           /\ loadExc' = IF f.exists THEN r.exc ELSE NoExc
           /\ loadOps' = IF f.exists THEN <<"exists">> \o r.ops ELSE <<"exists">>
    /\ idx' = idx + 1
    /\ attempts' = [attempts EXCEPT ![Keys[idx + 1]] = @ + 1]
    /\ UNCHANGED <<loaded, runs, normVars, flowVars, reportingVars, appVars>>

\* models.get(key), app.py:212
ModelsGet(key) == IF key \in DOMAIN models THEN models[key] ELSE None

\* `return models.get("diabetes"), ...` (app.py:212) and the module-level
\* assignment of the triple (app.py:234); the locals of the loop are gone.
LoadReturn ==
    /\ ~loaded
    /\ idx = Len(Keys)
    /\ loaded' = TRUE
    /\ runs' = runs + 1
    /\ cand' = Absent
    /\ sniff' = NotCalled
    /\ loadExc' = NoExc
    /\ loadOps' = <<>>
    /\ UNCHANGED <<idx, models, attempts, normVars, flowVars, reportingVars, appVars>>

MaxRuns == 3

RerunUncached ==
    /\ loaded
    /\ runs < MaxRuns
    /\ loaded' = FALSE
    /\ idx' = 0
    /\ models' = NoModels
    /\ UNCHANGED <<runs, cand, sniff, loadExc, loadOps, attempts>>
    /\ UNCHANGED <<normVars, flowVars, reportingVars, appVars>>

\* A later script run reaches line 234.  load_models is wrapped by
\* st.cache_resource (line 186): the call finds the value the first call
\* returned and hands it back; the body of load_models is not executed.
Rerun ==
    /\ loaded
    /\ runs < MaxRuns
    /\ runs' = runs + 1
    /\ UNCHANGED <<idx, models, cand, sniff, loadExc, loadOps, loaded, attempts>>
    /\ UNCHANGED <<normVars, flowVars, reportingVars, appVars>>

(***************************************************************************)
(* Prediction Normalizer: safe_predict_proba, app.py:215-231               *)
(***************************************************************************)
MaxRows == 1
MaxCols == 2

\* Numbers a predict_proba may put in its output, in thousandths; a broken
\* artifact is not bound to [0, 1].
ProbVals == {-100, 0, 700, 1200}

\* Margins a decision_function may return.
Margins == {-710, -709, -1, 0, 2, 710}

\* What an operation of the model does when called: it raises, it returns
\* something that is no array, or it returns an array. A 1-D array of n numbers
\* is kept as n rows of one number with ndim = 1.
Array(nd, nc, rs) == [kind |-> "array", ndim |-> nd, ncols |-> nc, rows |-> rs]
Raises == [kind |-> "raise", ndim |-> 0, ncols |-> 0, rows |-> <<>>]
NotArray == [kind |-> "other", ndim |-> 0, ncols |-> 0, rows |-> <<>>]
NotExposed == [kind |-> "absent", ndim |-> 0, ncols |-> 0, rows |-> <<>>]

RowsOver(vals, c) == UNION {[1..r -> [1..c -> vals]] : r \in 0..MaxRows}

ProbaOuts ==
    {Raises, NotArray}
    \cup UNION {{Array(2, c, rs) : rs \in RowsOver(ProbVals, c)} : c \in 0..MaxCols}
    \cup {Array(1, 1, rs) : rs \in RowsOver(ProbVals, 1)}

\* np.ravel(df) of a numeric array, or an array whose elements are no numbers.
NonNumeric == [kind |-> "nonnumeric", ndim |-> 1, ncols |-> 1, rows |-> <<>>]

DecisionOuts ==
    {Raises, NonNumeric} \cup {Array(1, 1, rs) : rs \in RowsOver(Margins, 1)}

\* e^k in thousandths, rounded down, for integer k; beyond the table the value
\* is below one thousandth (0) or above every denominator used here.
ExpTable == <<2, 6, 18, 49, 135, 367, 1000, 2718, 7389, 20085, 54598, 148413,
              403428, 1096633, 2980957, 8103083, 22026465, 59874141,
              162754791, 442413392, 1202604284>>
EPow(k) ==
    IF k < -6 THEN 0
    ELSE IF k > 14 THEN 2000000000
    ELSE ExpTable[k + 7]

\* math.exp raises OverflowError ("math range error") above e^709.78.
MathExpMax == 709
MathExpOverflows(k) == k > MathExpMax

\* Variant: the reciprocal left out, 1+math.exp(-x).
SigmoidNoReciprocal(x) == 1000 + EPow(-x)

\* sigmoid = lambda x: 1/(1+math.exp(-x)), app.py:227, in thousandths
Sigmoid(x) == 1000000 \div (1000 + EPow(-x))

Ret(k, v) == [kind |-> k, vals |-> v]
RetNone == Ret("None", <<>>)

\* proba[:, j] for a 2-D array, j counted from 1 here.
Column(rs, j) == [i \in 1..Len(rs) |-> rs[i][j]]

Body(e, r, c) == [exc |-> e, ret |-> r, calls |-> c]

\* Variant: column 0 whatever the shape.
SelectColumnFirst(p) == 1

\* The column of a predict_proba output that is returned (counted from 1):
\* `if proba.ndim == 2 and proba.shape[1] >= 2: return proba[:,1]`, else
\* `return proba[:,0]`, app.py:221-223.
SelectColumn(p) == IF p.ndim = 2 /\ p.ncols >= 2 THEN 2 ELSE 1

\* Variant: falling back on m.predict(X) as a probability.
FallThroughPredict(m) == Body("none", Ret("array", <<1000>>), <<"predict">>)

\* Neither `if hasattr` holds: the function ends without a return statement
\* and calls nothing.
FallThrough(m) == Body("none", RetNone, <<>>)

\* The statements inside the try block, app.py:217-228: the exception they
\* raise ("none" when they complete), the value returned, and the operations
\* of the model that were called.
NormBody(m, p, d) ==
    IF m.none THEN Body("none", RetNone, <<>>)
    ELSE IF HasAttr(m, "predict_proba") THEN
        LET c == <<"predict_proba">>
            j == SelectColumn(p)
        IN
        IF p.kind = "raise" THEN Body("ModelError", RetNone, c)
        ELSE IF p.kind # "array" THEN Body("AttributeError", RetNone, c)
        ELSE IF p.ndim # 2 \/ p.ncols < j THEN Body("IndexError", RetNone, c)
        ELSE Body("none", Ret("array", Column(p.rows, j)), c)
    ELSE IF HasAttr(m, "decision_function") THEN
        LET c == <<"decision_function">> IN
        IF d.kind = "raise" THEN Body("ModelError", RetNone, c)
        ELSE IF d.kind # "array" THEN Body("TypeError", RetNone, c)
        ELSE IF \E i \in 1..Len(d.rows) : MathExpOverflows(-d.rows[i][1])
             THEN Body("OverflowError", RetNone, c)
        ELSE Body("none",
                  Ret("list", [i \in 1..Len(d.rows) |-> Sigmoid(d.rows[i][1])]), c)
    ELSE FallThrough(m)

\* Variant: a handler that catches the model's own errors only.
CaughtOnlyModelError(e) == e = "ModelError"

\* `except Exception as e:` (app.py:229): every exception the body can raise
\* here is an instance of Exception.
CaughtByExcept(e) == e # "none"

Outcome(cl, r, x, c) == [called |-> cl, ret |-> r, raised |-> x, calls |-> c]
NotYetCalled == Outcome(FALSE, RetNone, "none", <<>>)

SafePredictProba(m, p, d) ==
    LET b == NormBody(m, p, d) IN
    IF b.exc = "none" THEN Outcome(TRUE, b.ret, "none", b.calls)
    ELSE IF CaughtByExcept(b.exc) THEN Outcome(TRUE, RetNone, "none", b.calls)
    ELSE Outcome(TRUE, RetNone, b.exc, b.calls)

\* Values load_models can leave in a slot.
SlotValues == {LoadSlot(f) : f \in Disk}

\* The behaviour of an operation the model does not expose is not drawn.
BehavioursOf(m) ==
    {<<p, d>> : p \in IF HasAttr(m, "predict_proba") THEN ProbaOuts ELSE {NotExposed},
                d \in IF HasAttr(m, "decision_function") THEN DecisionOuts ELSE {NotExposed}}

InitNorm ==
    /\ nModel \in SlotValues
    /\ \E b \in BehavioursOf(nModel) : nProba = b[1] /\ nDecision = b[2]
    /\ nOut = NotYetCalled

IdleNorm ==
    /\ nModel = None
    /\ nProba = NotExposed
    /\ nDecision = NotExposed
    /\ nOut = NotYetCalled

CallSafePredictProba ==
    /\ ~nOut.called
    /\ nOut' = SafePredictProba(nModel, nProba, nDecision)
    /\ UNCHANGED <<nModel, nProba, nDecision, loaderVars, flowVars, reportingVars, appVars>>

(***************************************************************************)
(* Health Scan prediction flows, app.py:603-654 (Heart), 668-710           *)
(* (Diabetes), 757-817 (Kidney)                                            *)
(***************************************************************************)
MaxMinutes == 2

\* datetime.now().strftime("%d-%m-%Y %I:%M %p"): the minute of the run.
Dates == 1..MaxMinutes

\* The value of report["Risk %"]: always a number (a float), here in
\* hundredths of a percent.
RiskNumber(v) == [known |-> TRUE, value |-> v]

\* The fields of the report dict that the flows compute; the Patient ID is
\* the session's auto_patient_id in every report.
Report(c, d, r) == [cond |-> c, date |-> d, risk |-> r]
NoReport == Report("none", 0, RiskNumber(0))

\* What the selected model does in a run: predict(data)[0] is a label or
\* predict raises; predict_proba and decision_function as in BehavioursOf,
\* for the one-row input the flows pass.
PredictOuts == {"raise", "0", "1"}
FlowProbaOuts ==
    {Raises, Array(2, 2, <<>>), Array(2, 2, <<(<<300, 700>>)>>),
     Array(2, 2, <<(<<1000, 0>>)>>)}
FlowDecisionOuts == {Raises, Array(1, 1, <<(<<0>>)>>), Array(1, 1, <<(<<-710>>)>>)}

FlowBehavioursOf(m) ==
    {<<p, d>> : p \in IF HasAttr(m, "predict_proba") THEN FlowProbaOuts ELSE {NotExposed},
                d \in IF HasAttr(m, "decision_function") THEN FlowDecisionOuts
                      ELSE {NotExposed}}

Run(o, c, n, res, sv, rep) ==
    [outcome |-> o, cond |-> c, normalized |-> n, result |-> res, saved |-> sv,
     report |-> rep]
Idle == Run("idle", "none", NotCalled, "none", FALSE, NoReport)

\* `round(prob, 2)` of `prob = float(prob_arr[0]*100) if prob_arr is not None
\* else 0.0` (app.py:609, 624): thousandths times 100 are tenths of a percent.
RiskOf(out) ==
    IF out.ret = RetNone THEN RiskNumber(0)
    ELSE RiskNumber(out.ret.vals[1] * 10)

\* (Patient ID, Condition, Date) of the reports already in the session.
ExistingKeys == {<<reports[i].cond, reports[i].date>> : i \in 1..Len(reports)}

\* One run in which the Predict button of condition `label` is pressed; `key`
\* is the slot of the model. detailsOK: validate_patient_details();
\* pred: what model.predict does; b: what its probability operations do;
\* dbOK: whether insert_report succeeds; now: the minute of the run.
PredictFlow(key, label) ==
    /\ loaded
    /\ run = Idle
    /\ \E detailsOK \in BOOLEAN :
        IF ~detailsOK
        THEN /\ run' = Run("stopped", label, NotCalled, "none", FALSE, NoReport)
             /\ UNCHANGED reports
        ELSE \E pred \in PredictOuts, b \in FlowBehavioursOf(ModelsGet(key)),
                dbOK \in BOOLEAN, now \in Dates :
            LET m == ModelsGet(key)
                res == IF m.none THEN "0" ELSE pred
                out == SafePredictProba(m, b[1], b[2])
                report == Report(label, now, RiskOf(out))
                result == IF res = "1" THEN "risk" ELSE "safe"
            IN
            /\ \A i \in 1..Len(reports) : reports[i].date <= now
            /\ IF res = "raise"
               THEN \* model.predict raises: the run ends in an error
                    /\ run' = Run("crashed", label, NotCalled, "none", FALSE, NoReport)
                    /\ UNCHANGED reports
               ELSE IF out.ret # RetNone /\ Len(out.ret.vals) = 0
               THEN \* prob_arr[0] of an empty result raises IndexError
                    /\ run' = Run("crashed", label, "value", "none", FALSE, NoReport)
                    /\ UNCHANGED reports
               ELSE /\ reports' = IF <<label, now>> \notin ExistingKeys
                                  THEN Append(reports, report) ELSE reports
                    /\ run' = Run("report", label,
                                  IF out.ret = RetNone THEN "None" ELSE "value",
                                  result, dbOK, report)
    /\ UNCHANGED <<loaderVars, normVars, reportingVars, appVars>>

PredictHeart == PredictFlow("heart", "Heart")
PredictDiabetes == PredictFlow("diabetes", "Diabetes")
PredictKidney == PredictFlow("kidney", "Kidney")

\* Reports the flows put in the session list.
FlowReports ==
    {Report(c, d, RiskNumber(v)) :
        c \in {"Heart", "Diabetes", "Kidney"}, d \in Dates, v \in {0, 5000, 7000}}

IdleFlow ==
    /\ reports = <<>>
    /\ run = Idle

\* A session that already ran the flows: the models as load_models left them
\* and the reports of earlier runs.
InitFlow ==
    /\ idx = Len(Keys)
    /\ models \in [{Keys[i] : i \in 1..Len(Keys)} -> SlotValues]
    /\ cand = Absent
    /\ sniff = NotCalled
    /\ loadExc = NoExc
    /\ loadOps = <<>>
    /\ loaded = TRUE
    /\ runs = 1
    /\ attempts = [k \in {Keys[i] : i \in 1..Len(Keys)} |-> 1]
    /\ reports \in {<<>>} \cup {<<r>> : r \in FlowReports}
    /\ run = Idle

(***************************************************************************)
(* Text and numbers of report.py.  A Python str is the sequence of its     *)
(* characters; a float is a fixed-point number in thousandths (the ranges  *)
(* of normal_ranges have at most three decimals), or inf, -inf or nan.     *)
(***************************************************************************)
Chars(t) == [i \in 1..Len(t) |-> SubSeq(t, i, i)]

\* The characters str.strip() and float() take for whitespace.
Whitespace == {" ", "\t", "\n", "\r", "\f"}

RECURSIVE LStrip(_)
LStrip(s) ==
    IF s # <<>> /\ Head(s) \in Whitespace THEN LStrip(Tail(s)) ELSE s

RECURSIVE RStrip(_)
RStrip(s) ==
    IF s # <<>> /\ s[Len(s)] \in Whitespace THEN RStrip(SubSeq(s, 1, Len(s) - 1))
    ELSE s

\* str.strip()
Strip(s) == RStrip(LStrip(s))

LowerChar(c) ==
    LET upper == Chars("ABCDEFGHIJKLMNOPQRSTUVWXYZ")
        lower == Chars("abcdefghijklmnopqrstuvwxyz")
    IN IF \E i \in 1..Len(upper) : upper[i] = c
       THEN lower[CHOOSE i \in 1..Len(upper) : upper[i] = c]
       ELSE c

\* str.lower()
Lower(s) == [i \in 1..Len(s) |-> LowerChar(s[i])]

\* `c in s` for a one-character c
Contains(s, c) == \E i \in 1..Len(s) : s[i] = c

\* s.replace(c, "") for a one-character c
RemoveChar(s, c) == SelectSeq(s, LAMBDA x : x # c)

\* s.split(c) for a one-character c: the parts between the occurrences of c
RECURSIVE Split(_, _)
Split(s, c) ==
    IF ~Contains(s, c) THEN <<s>>
    ELSE LET i == CHOOSE j \in 1..Len(s) : s[j] = c /\ \A k \in 1..(j - 1) : s[k] # c
         IN <<SubSeq(s, 1, i - 1)>> \o Split(SubSeq(s, i + 1, Len(s)), c)

DigitChars == Chars("0123456789")
DigitValue(c) == (CHOOSE d \in 1..Len(DigitChars) : DigitChars[d] = c) - 1

RECURSIVE DigitsValue(_)
DigitsValue(ds) ==
    IF ds = <<>> THEN 0
    ELSE DigitsValue(SubSeq(ds, 1, Len(ds) - 1)) * 10 + DigitValue(ds[Len(ds)])

\* A float: finite (v thousandths), or one of the IEEE specials.
Num(k, v) == [ok |-> TRUE, kind |-> k, v |-> v]
\* float(x) raised ValueError
NoNum == [ok |-> FALSE, kind |-> "none", v |-> 0]

\* a > b and a < b of two floats, b finite; every comparison with nan is False
Gt(a, b) == a.kind = "inf" \/ (a.kind = "finite" /\ a.v > b.v)
Lt(a, b) == a.kind = "-inf" \/ (a.kind = "finite" /\ a.v < b.v)

\* float(s) of a str without exponent and underscores: surrounding whitespace
\* is ignored, then an optional sign and either inf, infinity or nan in any
\* letter case, or digits with at most one point and at least one digit.
\* Digits after the third decimal are below the model's resolution.
ParseFloat(s) ==
    LET t == Strip(s)
        signed == t # <<>> /\ Head(t) \in {"+", "-"}
        neg == t # <<>> /\ Head(t) = "-"
        body == IF signed THEN Tail(t) ELSE t
        word == Lower(body)
        parts == Split(body, ".")
        ip == parts[1]
        fp == IF Len(parts) = 2 THEN parts[2] ELSE <<>>
        allDigits == \A i \in 1..Len(ip \o fp) :
                        \E d \in 1..Len(DigitChars) : DigitChars[d] = (ip \o fp)[i]
        milli == DigitsValue(ip) * 1000 + DigitsValue(SubSeq(fp \o Chars("000"), 1, 3))
    IN
    IF word \in {Chars("inf"), Chars("infinity")}
    THEN Num(IF neg THEN "-inf" ELSE "inf", 0)
    ELSE IF word = Chars("nan") THEN Num("nan", 0)
    ELSE IF Len(parts) <= 2 /\ ip \o fp # <<>> /\ allDigits
    THEN Num("finite", IF neg THEN -milli ELSE milli)
    ELSE NoNum

\* The values a caller passes: None, a str, an int or a float (thousandths,
\* not negative).
PyNone == [t |-> "none", text |-> <<>>, num |-> 0]
PyStr(t) == [t |-> "str", text |-> Chars(t), num |-> 0]
PyInt(n) == [t |-> "int", text |-> <<>>, num |-> n]
PyFloat(m) == [t |-> "float", text |-> <<>>, num |-> m]

RECURSIVE IntText(_)
IntText(n) ==
    IF n < 0 THEN <<"-">> \o IntText(-n)
    ELSE IF n < 10 THEN <<DigitChars[n + 1]>>
    ELSE IntText(n \div 10) \o <<DigitChars[(n % 10) + 1]>>

\* The decimals of repr(float): as few as give the number back, at least one.
FracText(r) ==
    IF r % 1000 = 0 THEN Chars("0")
    ELSE IF r % 100 = 0 THEN IntText(r \div 100)
    ELSE IF r % 10 = 0 THEN <<DigitChars[(r \div 100) + 1]>> \o IntText((r \div 10) % 10)
    ELSE <<DigitChars[(r \div 100) + 1], DigitChars[((r \div 10) % 10) + 1]>>
         \o IntText(r % 10)

\* str(value)
Str(value) ==
    IF value.t = "none" THEN Chars("None")
    ELSE IF value.t = "str" THEN value.text
    ELSE IF value.t = "int" THEN IntText(value.num)
    ELSE IntText(value.num \div 1000) \o <<".">> \o FracText(value.num % 1000)

(***************************************************************************)
(* The tables of report.py                                                 *)
(***************************************************************************)
\* report.py:10-53
NormalRanges ==
    ("Chest Pain Type" :> "0 - 3") @@
    ("Resting Blood Pressure" :> "90 - 120") @@
    ("Cholesterol" :> "< 200") @@
    ("Fasting Blood Sugar" :> "< 100") @@
    ("Resting ECG" :> "0 - 2") @@
    ("Max Heart Rate" :> "60 - 100") @@
    ("Exercise Induced Angina" :> "No") @@
    ("ST Depression" :> "0 - 1") @@
    ("ST Slope" :> "0 - 2") @@
    ("Major Vessels Colored" :> "0 - 1") @@
    ("Thalassemia" :> "0 - 1") @@
    ("BMI" :> "18.5 - 24.9") @@
    ("Blood Glucose" :> "70 - 99") @@
    ("HbA1c" :> "4 - 5.6") @@
    ("Hypertension" :> "No") @@
    ("Blood Pressure" :> "90 - 120") @@
    ("Specific Gravity" :> "1.005 - 1.030") @@
    ("Albumin" :> "0 - 1") @@
    ("Sugar" :> "0 - 1") @@
    ("Red Blood Cells" :> "Normal") @@
    ("Pus Cell" :> "Normal") @@
    ("Pus Cell Clumps" :> "No") @@
    ("Bacteria" :> "No") @@
    ("Blood Glucose Random" :> "70 - 140") @@
    ("Blood Urea" :> "7 - 20") @@
    ("Serum Creatinine" :> "0.6 - 1.2") @@
    ("Sodium" :> "135 - 145") @@
    ("Potassium" :> "3.5 - 5.0") @@
    ("Haemoglobin" :> "12 - 17") @@
    ("Packed Cell Volume" :> "38 - 52") @@
    ("White Blood Cell Count" :> "4000 - 11000") @@
    ("Red Blood Cell Count" :> "4.5 - 6.0") @@
    ("Diabetes Mellitus" :> "-") @@
    ("Coronary Artery Disease" :> "-") @@
    ("Appetite" :> "-") @@
    ("Peda Edema" :> "-") @@
    ("Anaemia" :> "-")

\* report.py:56-100
RenameKeys ==
    ("cp" :> "Chest Pain Type") @@
    ("restbps" :> "Resting Blood Pressure") @@
    ("chol" :> "Cholesterol") @@
    ("fbs" :> "Fasting Blood Sugar") @@
    ("restecg" :> "Resting ECG") @@
    ("thalach" :> "Max Heart Rate") @@
    ("exang" :> "Exercise Induced Angina") @@
    ("oldpeak" :> "ST Depression") @@
    ("slope" :> "ST Slope") @@
    ("ca" :> "Major Vessels Colored") @@
    ("thal" :> "Thalassemia") @@
    ("bmi" :> "BMI") @@
    ("glucose" :> "Blood Glucose") @@
    ("hba" :> "HbA1c") @@
    ("hyt" :> "Hypertension") @@
    ("bp" :> "Blood Pressure") @@
    ("sg" :> "Specific Gravity") @@
    ("al" :> "Albumin") @@
    ("su" :> "Sugar") @@
    ("red_blood_cells" :> "Red Blood Cells") @@
    ("pc" :> "Pus Cell") @@
    ("pcc" :> "Pus Cell Clumps") @@
    ("ba" :> "Bacteria") @@
    ("bgr" :> "Blood Glucose Random") @@
    ("bu" :> "Blood Urea") @@
    ("sc" :> "Serum Creatinine") @@
    ("sod" :> "Sodium") @@
    ("pot" :> "Potassium") @@
    ("hemo" :> "Haemoglobin") @@
    ("pcv" :> "Packed Cell Volume") @@
    ("wc" :> "White Blood Cell Count") @@
    ("rc" :> "Red Blood Cell Count") @@
    ("htn" :> "Hypertension") @@
    ("dm" :> "Diabetes Mellitus") @@
    ("cad" :> "Coronary Artery Disease") @@
    ("appet" :> "Appetite") @@
    ("pe" :> "Peda Edema") @@
    ("ane" :> "Anaemia")

\* The module is imported: both dicts are built.
InitTables ==
    /\ normal_ranges = NormalRanges
    /\ rename_keys = RenameKeys

(***************************************************************************)
(* Range Flagger: check_flag, report.py:103-146                            *)
(***************************************************************************)
\* What a call does: it returns a flag, or an exception leaves it.
Flag(r) == [ret |-> r, exc |-> "none"]
Raised(e) == [ret |-> "none", exc |-> e]
NotFlagged == [ret |-> "none", exc |-> "not-called"]

HighWords == {Chars(w) : w \in {"yes", "poor", "abnormal", "high", "true", "1"}}
NormalWords == {Chars(w) : w \in {"no", "good", "normal", "false", "0"}}

ExceptNothing(o) == o

\* `except:` (lines 128, 142) and `except Exception:` (line 144) catch every
\* exception float() raises; the handler returns "Normal".
ExceptAll(o) == IF o.exc # "none" THEN Flag("Normal") ELSE o

UpperBoundCheckInclusive(limit, s) ==
    IF ~ParseFloat(s).ok THEN Flag("Normal")
    ELSE IF ~Lt(ParseFloat(s), limit) /\ ParseFloat(s).kind # "nan" THEN Flag("High")
    ELSE Flag("Normal")

\* lines 126-129: `return "High" if float(s) > limit else "Normal"` in its try
UpperBoundCheck(limit, s) ==
    ExceptAll(IF ~ParseFloat(s).ok THEN Raised("ValueError")
              ELSE IF Gt(ParseFloat(s), limit) THEN Flag("High")
              ELSE Flag("Normal"))

IntervalCheckHighOnly(low, high, s) ==
    IF ~ParseFloat(s).ok THEN Flag("Normal")
    ELSE IF Gt(ParseFloat(s), high) THEN Flag("High")
    ELSE Flag("Normal")

\* lines 135-143: val = float(s) and the two comparisons, in their try
IntervalCheck(low, high, s) ==
    ExceptAll(IF ~ParseFloat(s).ok THEN Raised("ValueError")
              ELSE IF Lt(ParseFloat(s), low) THEN Flag("Low")
              ELSE IF Gt(ParseFloat(s), high) THEN Flag("High")
              ELSE Flag("Normal"))

\* lines 124-143, the body of the outer try; None when it falls out of it
RangeBody(rg, s) ==
    IF Contains(rg, "<")
    THEN LET limit == Strip(RemoveChar(rg, "<"))
         IN IF ~ParseFloat(limit).ok THEN Raised("ValueError")
            ELSE UpperBoundCheck(ParseFloat(limit), s)
    ELSE IF Contains(rg, "-")
    THEN LET parts == Split(rg, "-")
         IN IF Len(parts) # 2 THEN Flag("fall-through")
            ELSE IF ~ParseFloat(Strip(parts[1])).ok THEN Raised("ValueError")
            ELSE IF ~ParseFloat(Strip(parts[2])).ok THEN Raised("ValueError")
            ELSE IntervalCheck(ParseFloat(Strip(parts[1])), ParseFloat(Strip(parts[2])), s)
    ELSE Flag("fall-through")

\* lines 122-146: the range text of the parameter against the stripped value
RangeCheck(rg, s) ==
    LET o == ExceptAll(RangeBody(rg, s))
    IN IF o = Flag("fall-through") THEN Flag("Normal") ELSE o

CheckFlagRangeFirst(param, value) ==
    IF value.t = "none" THEN Flag("Normal")
    ELSE LET s == Strip(Str(value))
             low_s == Lower(s)
         IN IF s = <<>> THEN Flag("Normal")
            ELSE IF param \in DOMAIN normal_ranges
            THEN RangeCheck(Chars(normal_ranges[param]), s)
            ELSE IF low_s \in HighWords THEN Flag("High")
            ELSE Flag("Normal")

CheckFlagUnguardedLookup(param, value) ==
    IF value.t = "none" THEN Flag("Normal")
    ELSE LET s == Strip(Str(value))
             low_s == Lower(s)
         IN IF s = <<>> THEN Flag("Normal")
            ELSE IF low_s \in HighWords THEN Flag("High")
            ELSE IF low_s \in NormalWords THEN Flag("Normal")
            ELSE IF param \in DOMAIN normal_ranges
            THEN RangeCheck(Chars(normal_ranges[param]), s)
            ELSE Raised("KeyError")

\* check_flag(param, value)
CheckFlag(param, value) ==
    IF value.t = "none" THEN Flag("Normal")
    ELSE LET s == Strip(Str(value))
             low_s == Lower(s)
         IN IF s = <<>> THEN Flag("Normal")
            ELSE IF low_s \in HighWords THEN Flag("High")
            ELSE IF low_s \in NormalWords THEN Flag("Normal")
            ELSE IF param \in DOMAIN normal_ranges
            THEN RangeCheck(Chars(normal_ranges[param]), s)
            ELSE Flag("Normal")

\* Parameter names a caller passes: the registered ones and ones without a
\* range (a raw key, an identity field, the empty name).
Params == DOMAIN NormalRanges \cup {"cp", "Age", "Risk %", ""}

MaxPad == 1

\* Texts of str values, each also with up to MaxPad blanks on either side.
Texts ==
    {"", "Yes", "yes", "YES", "yEs", "No", "NO", "Poor", "good", "Abnormal", "Normal",
     "HIGH", "True", "false", "1", "0", "abc", "None", "present", "1.0", "0.0", "-5",
     "+250", "250", "150", "200", "200.0", "30", "100", "99.9", "1.031", "1.004",
     "nan", "inf", "-Infinity", "1.2.3", ".", "4.", ".5", "12a", "2 0"}
Padded(t) ==
    {[t |-> "str", text |-> [i \in 1..a |-> " "] \o Chars(t) \o [i \in 1..b |-> " "],
      num |-> 0] : a, b \in 0..MaxPad}
      \cup {PyStr("\t" \o t \o "\n")}

\* The values: None, the padded texts, ints, and floats in thousandths.
Values ==
    {PyNone} \cup UNION {Padded(t) : t \in Texts}
      \cup {PyInt(n) :
               n \in {-5, 0, 1, 2, 3, 4, 30, 59, 60, 89, 90, 99, 100, 101, 120, 121, 150,
                      199, 200, 201, 250, 3999, 4000, 11000, 11001}}
      \cup {PyFloat(m) :
               m \in {0, 500, 1000, 1004, 1005, 1030, 1031, 5600, 5700, 18400, 18500,
                      24900, 25000, 99900, 100000, 100100, 200000, 200500, 250000}}

IdleFlag ==
    /\ fParam = ""
    /\ fValue = PyNone
    /\ fOut = NotFlagged

InitFlag ==
    /\ fParam \in Params
    /\ fValue \in Values
    /\ fOut = NotFlagged

\* One call check_flag(fParam, fValue).
CallCheckFlag ==
    /\ fOut = NotFlagged
    /\ fOut' = CheckFlag(fParam, fValue)
    /\ UNCHANGED <<fParam, fValue, normal_ranges, rename_keys, data, doc>>
    /\ UNCHANGED <<loaderVars, normVars, flowVars, appVars>>

(***************************************************************************)
(* Report Compiler: generate_pdf_report, report.py:172-297.  A dict is the *)
(* sequence of its <<key, value>> items in insertion order.                *)
(***************************************************************************)
DictKeys(d) == {d[i][1] : i \in 1..Len(d)}

\* d.get(k): the value of k, None when k is not a key
DictGet(d, k) ==
    IF k \in DictKeys(d) THEN d[CHOOSE i \in 1..Len(d) : d[i][1] = k][2] ELSE PyNone

DictSetKeepFirst(d, k, v) ==
    IF k \in DictKeys(d) THEN d ELSE Append(d, <<k, v>>)

\* d after d[k] = v: a key that is present keeps its place
DictSet(d, k, v) ==
    IF k \in DictKeys(d)
    THEN [i \in 1..Len(d) |-> IF d[i][1] = k THEN <<k, v>> ELSE d[i]]
    ELSE Append(d, <<k, v>>)

CanonNameOrNone(k) == IF k \in DOMAIN rename_keys THEN rename_keys[k] ELSE "None"

\* rename_keys.get(k, k), line 184
CanonName(k) == IF k \in DOMAIN rename_keys THEN rename_keys[k] ELSE k

RECURSIVE CanonicalizeKnownOnly(_)
CanonicalizeKnownOnly(d) ==
    IF d = <<>> THEN <<>>
    ELSE LET rest == CanonicalizeKnownOnly(SubSeq(d, 1, Len(d) - 1))
             last == d[Len(d)]
         IN IF last[1] \in DOMAIN rename_keys
            THEN DictSet(rest, CanonName(last[1]), last[2])
            ELSE rest

\* lines 181-185: the dict `fixed` built from the items of `data`, in order
RECURSIVE Canonicalize(_)
Canonicalize(d) ==
    IF d = <<>> THEN <<>>
    ELSE LET rest == Canonicalize(SubSeq(d, 1, Len(d) - 1))
             last == d[Len(d)]
         IN DictSet(rest, CanonName(last[1]), last[2])

\* bool(v) of a value
Truthy(v) ==
    IF v.t = "none" THEN FALSE
    ELSE IF v.t = "str" THEN v.text # <<>>
    ELSE v.num # 0

\* fixed.get(k1) or fixed.get(k2) or ... or "-"
RECURSIVE FirstTruthy(_, _)
FirstTruthy(fixed, ks) ==
    IF ks = <<>> THEN PyStr("-")
    ELSE IF Truthy(DictGet(fixed, Head(ks))) THEN DictGet(fixed, Head(ks))
    ELSE FirstTruthy(fixed, Tail(ks))

\* s(val), lines 161-169: the text of a table cell
S(val) ==
    IF val.t = "none" THEN Chars("-")
    ELSE IF val.t = "float" /\ val.num % 1000 = 0 THEN IntText(val.num \div 1000)
    ELSE Str(val)

\* lines 188-201 and 234-244: the rows of the patient information table; the
\* text of the Report Date row is the clock's.
PatientInfo(fixed, disease) ==
    LET contact_val == FirstTruthy(fixed, <<"Phone", "Patient Contact", "Contact",
                                            "Phone Number", "Patient Phone">>)
    IN << <<"Patient ID", S(FirstTruthy(fixed, <<"Patient ID", "patient_id">>))>>,
          <<"Patient Name", S(FirstTruthy(fixed, <<"Patient Name", "patient_name">>))>>,
          <<"Contact", S(contact_val)>>,
          <<"Age", S(FirstTruthy(fixed, <<"Age">>))>>,
          <<"Gender", S(FirstTruthy(fixed, <<"Gender">>))>>,
          <<"Test Type", S(IF Truthy(disease) THEN disease ELSE PyStr("-"))>>,
          <<"Doctor Name", S(FirstTruthy(fixed, <<"Doctor Name", "doctor_name">>))>>,
          <<"Referred By", S(FirstTruthy(fixed, <<"Referred By", "referred_by">>))>>,
          <<"Report Date", Chars("now")>> >>

\* line 256: one row of the results table
Row(key, val) ==
    [name |-> key, value |-> S(val), range |-> Chars(normal_ranges[key]),
     status |-> CheckFlag(key, val)]

RECURSIVE ResultRowsEveryKey(_)
ResultRowsEveryKey(fixed) ==
    IF fixed = <<>> THEN <<>>
    ELSE LET rest == ResultRowsEveryKey(SubSeq(fixed, 1, Len(fixed) - 1))
             last == fixed[Len(fixed)]
         IN Append(rest, [name |-> last[1], value |-> S(last[2]),
                          range |-> IF last[1] \in DOMAIN normal_ranges
                                    THEN Chars(normal_ranges[last[1]]) ELSE Chars("-"),
                          status |-> CheckFlag(last[1], last[2])])

\* lines 251-256: the rows after the heading row, in the order of fixed.items()
RECURSIVE ResultRows(_)
ResultRows(fixed) ==
    IF fixed = <<>> THEN <<>>
    ELSE LET rest == ResultRows(SubSeq(fixed, 1, Len(fixed) - 1))
             last == fixed[Len(fixed)]
         IN IF last[1] \in DOMAIN normal_ranges
            THEN Append(rest, Row(last[1], last[2]))
            ELSE rest

\* What the call leaves: the local dict `fixed` and the content handed to
\* doc.build (header contact, patient information, results rows or the
\* message that there are none, the diagnosis box), or the exception.
Document(x, f, h, i, r, m, d) ==
    [built |-> x = "none", exc |-> x, fixed |-> f, header |-> h, info |-> i, rows |-> r,
     message |-> m, diagnosis |-> d]
NoDoc == Document("not-called", <<>>, <<>>, <<>>, <<>>, FALSE, <<>>)

\* generate_pdf_report(disease, data, diagnosis)
GeneratePdfReport(disease, d, diagnosis) ==
    LET fixed == Canonicalize(d)
        rows == ResultRows(fixed)
        failed == {i \in 1..Len(rows) : rows[i].status.exc # "none"}
    IN IF failed # {}
       THEN Document(rows[CHOOSE i \in failed : \A j \in failed : i <= j].status.exc,
                     fixed, <<>>, <<>>, <<>>, FALSE, <<>>)
       ELSE Document("none", fixed,
                     S(FirstTruthy(fixed, <<"Phone", "Patient Contact", "Contact",
                                           "Phone Number", "Patient Phone">>)),
                     PatientInfo(fixed, disease),
                     [i \in 1..Len(rows) |-> [rows[i] EXCEPT !.status = rows[i].status.ret]],
                     Len(rows) = 0, S(diagnosis))

MaxKeys == 2

\* Keys of the caller's mapping: raw keys, canonical names, identity fields
\* and fields that are neither.
DataKeys == {"chol", "Cholesterol", "hyt", "htn", "Phone", "Age", "Risk %"}
DataValues == {PyInt(250), PyInt(0), PyFloat(72300), PyStr("Yes"), PyNone}

\* The mappings of at most MaxKeys items, keys distinct.
RECURSIVE Mappings(_)
Mappings(n) ==
    IF n = 0 THEN {<<>>}
    ELSE Mappings(n - 1) \cup
         UNION {{Append(d, <<k, v>>) : k \in DataKeys \ DictKeys(d), v \in DataValues} :
                    d \in Mappings(n - 1)}

IdleReport ==
    /\ data = <<>>
    /\ doc = NoDoc

InitReport ==
    /\ data \in Mappings(MaxKeys)
    /\ doc = NoDoc

CallGeneratePdfReportInPlace ==
    /\ doc = NoDoc
    /\ \E disease \in {PyStr("Heart Disease")},
          diagnosis \in {PyStr("Safe"), PyStr("High Risk")} :
        doc' = GeneratePdfReport(disease, data, diagnosis)
    /\ data' = Canonicalize(data)
    /\ UNCHANGED <<normal_ranges, rename_keys, fParam, fValue, fOut>>
    /\ UNCHANGED <<loaderVars, normVars, flowVars, appVars>>

\* One call generate_pdf_report(disease, data, diagnosis); `data or {}` makes
\* a call with None the call with the empty mapping.
CallGeneratePdfReport ==
    /\ doc = NoDoc
    /\ \E disease \in {PyStr("Heart Disease")},
          diagnosis \in {PyStr("Safe"), PyStr("High Risk")} :
        doc' = GeneratePdfReport(disease, data, diagnosis)
    /\ UNCHANGED <<data, normal_ranges, rename_keys, fParam, fValue, fOut>>
    /\ UNCHANGED <<loaderVars, normVars, flowVars, appVars>>

IdleReporting == InitTables /\ IdleFlag /\ IdleReport

(***************************************************************************)
(* Auto-download of the diabetes model: download_model_from_gdrive,        *)
(* app.py:78-119, called at module level in every script run (127-131),    *)
(* and download_model, download_model.py:4-18, which writes the same path. *)
(***************************************************************************)
MinDownloadSize == 200
MaxDownloadStep == 1
MaxCalls == 3

\* The file at the target path: absent, or present with a size around the
\* threshold of line 108 (an empty file and an error page included).
NoFile == [exists |-> FALSE, size |-> 0]
TargetFiles ==
    {NoFile} \cup
    {[exists |-> TRUE, size |-> sz] :
        sz \in {0} \cup (MinDownloadSize - MaxDownloadStep)..(MinDownloadSize + MaxDownloadStep)}

\* gdown.download: the file it leaves at the path and whether it raises.
GdownOutcomes == {[left |-> f, raises |-> r] : f \in TargetFiles, r \in BOOLEAN}

\* One call: the file before, whether `import gdown` worked, whether
\* gdown.download was called, the file after, and how the call ended.
DownloadCall(b, i, t, a, r) ==
    [before |-> b, imported |-> i, attempted |-> t, after |-> a, ret |-> r]

DownloadModelFromGdriveSizeChecked(before, imported, made, g) ==
    IF ~imported THEN DownloadCall(before, FALSE, FALSE, before, "False")
    ELSE IF ~made THEN DownloadCall(before, TRUE, FALSE, before, "OSError")
    ELSE IF before.exists
    THEN DownloadCall(before, TRUE, FALSE, before,
                      IF before.size > MinDownloadSize THEN "True" ELSE "False")
    ELSE IF g.raises THEN DownloadCall(before, TRUE, TRUE, g.left, "False")
    ELSE DownloadCall(before, TRUE, TRUE, g.left,
                      IF g.left.exists /\ g.left.size > MinDownloadSize
                      THEN "True" ELSE "False")

\* download_model_from_gdrive(file_id, out_path).  `made`: os.makedirs of
\* line 95 did not raise; g: what gdown.download does if it is called.
DownloadModelFromGdrive(before, imported, made, g) ==
    IF ~imported THEN DownloadCall(before, FALSE, FALSE, before, "False")     \* 85-90
    ELSE IF ~made THEN DownloadCall(before, TRUE, FALSE, before, "OSError")   \* 95
    ELSE IF before.exists
    THEN DownloadCall(before, TRUE, FALSE, before, "True")                    \* 97-100
    ELSE IF g.raises THEN DownloadCall(before, TRUE, TRUE, g.left, "False")   \* 116-119
    ELSE DownloadCall(before, TRUE, TRUE, g.left,                             \* 106-115
                      IF g.left.exists /\ g.left.size > MinDownloadSize
                      THEN "True" ELSE "False")

IdleDownload ==
    /\ target = NoFile
    /\ dlLog = <<>>

\* The path may hold a file before the first call (one shipped with the app).
InitDownload ==
    /\ target \in TargetFiles
    /\ dlLog = <<>>

\* The module-level call of a script run (app.py:127-131).  The directory of
\* a file that exists is there, so os.makedirs(exist_ok=True) cannot raise.
CallDownloadModelFromGdrive ==
    /\ Len(dlLog) < MaxCalls
    /\ \E imported \in BOOLEAN, made \in BOOLEAN, g \in GdownOutcomes :
        /\ target.exists => made
        /\ LET c == DownloadModelFromGdrive(target, imported, made, g)
           IN /\ dlLog' = Append(dlLog, c)
              /\ target' = c.after
    /\ UNCHANGED <<loaderVars, normVars, flowVars, reportingVars, sessionVars>>

\* download_model() of download_model.py: downloads if the path is empty.
DownloadModel ==
    /\ ~target.exists
    /\ \E g \in GdownOutcomes : target' = g.left
    /\ target' # target
    /\ UNCHANGED <<dlLog, loaderVars, normVars, flowVars, reportingVars, sessionVars>>

(***************************************************************************)
(* One browser session of app.py.  Streamlit executes the script from the  *)
(* top for every widget event; a script run is the chain of steps          *)
(* gate -> check -> sidebar -> page -> rows, cut short wherever the script *)
(* stops, reruns or raises.  Times are whole minutes.                      *)
(***************************************************************************)
TIMEOUT_MINUTES == 15
MaxClock == 33
MaxChat == 2

NoUser == [id |-> 0, username |-> ""]          \* None
SomeUser == [id |-> 1, username |-> "asha"]    \* what authenticate_user returns

\* A report by the fields the delete flow reads: "Patient ID", "Condition",
\* "Date"; a delete candidate has the same three under 'pid', 'condition',
\* 'date'.
SessionReport(p, c, d) == [pid |-> p, condition |-> c, date |-> d]
NoCandidate == SessionReport("", "", "")       \* no 'delete_candidate' key
SessionReports ==
    {SessionReport("MG-1", "Heart", "d1"), SessionReport("MG-1", "Kidney", "d1"),
     SessionReport("MG-1", "Heart", "d2")}

\* The widget whose event starts a run; "none" is a run without a handler
\* (the rerun itself, a refresh, a rejected login).  A click is delivered
\* whether or not its widget is drawn again: the handlers test that.
Ev(w, r) == [widget |-> w, row |-> r]
Events ==
    {Ev(w, NoCandidate) : w \in {"none", "login", "logout", "confirm", "cancel",
                                 "predict", "send", "clear"}}
    \cup {Ev("delete", r) : r \in SessionReports}

NoPage == ""
\* The warning of line 456 with its Confirm and Cancel buttons.
DeleteWarning == "Dashboard: delete warning"

\* safe_rerun(), app.py:27-45.  "rerun": st.experimental_rerun raises the
\* rerun signal, which `except Exception` lets through, and the run ends;
\* "return": that call raised an Exception (the attribute is gone in later
\* Streamlit releases), the assignment of line 42 worked and line 43 returns
\* to the caller; "stop": both failed and st.stop() ends the run.
SafeRerun == {"rerun", "return", "stop"}

\* Session defaults, app.py:237-250.
InitSession ==
    /\ user = NoUser
    /\ chat_history = <<>>
    /\ last_active = 0
    /\ delete_candidate = NoCandidate
    /\ clock = 1
    /\ event = Ev("none", NoCandidate)
    /\ pc = "idle"
    /\ page = NoPage

\* A widget event arrives after some time and the script starts again.
StartRun ==
    /\ pc = "idle"
    /\ \E e \in Events, d \in {0, TIMEOUT_MINUTES, TIMEOUT_MINUTES + 1} :
        /\ clock + d <= MaxClock
        /\ clock' = clock + d
        /\ event' = e
    /\ pc' = "gate"
    /\ page' = NoPage
    /\ UNCHANGED <<user, chat_history, last_active, delete_candidate, reports>>
    /\ UNCHANGED <<run, loaderVars, normVars, reportingVars, downloadVars>>

\* The auth gate, app.py:325-327, with the login form of show_auth_page
\* (299-315).  Whatever safe_rerun does at line 313, line 327 stops the run.
AuthGate ==
    /\ pc = "gate"
    /\ IF user = NoUser
       THEN /\ pc' = "idle"
            /\ IF event.widget = "login"
               THEN user' = SomeUser /\ last_active' = clock
               ELSE UNCHANGED <<user, last_active>>
       ELSE pc' = "check" /\ UNCHANGED <<user, last_active>>
    /\ UNCHANGED <<chat_history, delete_candidate, clock, event, page, reports>>
    /\ UNCHANGED <<run, loaderVars, normVars, reportingVars, downloadVars>>

\* check_auto_logout(), app.py:52-60, called at line 330.
CheckAutoLogout ==
    /\ pc = "check"
    /\ IF user # NoUser /\ last_active # 0 /\ clock - last_active > TIMEOUT_MINUTES
       THEN /\ user' = NoUser
            /\ chat_history' = <<>>
            /\ \E o \in SafeRerun : pc' = IF o = "return" THEN "sidebar" ELSE "idle"
       ELSE pc' = "sidebar" /\ UNCHANGED <<user, chat_history>>
    /\ UNCHANGED <<last_active, delete_candidate, clock, event, page, reports>>
    /\ UNCHANGED <<run, loaderVars, normVars, reportingVars, downloadVars>>

\* The sidebar, app.py:333-345.  With no user, line 338 subscripts None and
\* the run ends with a TypeError; the Logout button is lines 339-343.
Sidebar ==
    /\ pc = "sidebar"
    /\ IF user = NoUser
       THEN pc' = "idle" /\ UNCHANGED <<user, chat_history>>
       ELSE IF event.widget = "logout"
       THEN /\ user' = NoUser
            /\ chat_history' = <<>>
            /\ \E o \in SafeRerun : pc' = IF o = "return" THEN "page" ELSE "idle"
       ELSE pc' = "page" /\ UNCHANGED <<user, chat_history>>
    /\ UNCHANGED <<last_active, delete_candidate, clock, event, page, reports>>
    /\ UNCHANGED <<run, loaderVars, normVars, reportingVars, downloadVars>>

\* reports_db followed by the session reports no report of the list matches
\* yet, app.py:364-391.
RECURSIVE Merge(_, _)
Merge(acc, rs) ==
    IF rs = <<>> THEN acc
    ELSE Merge(IF \E i \in 1..Len(acc) : acc[i] = Head(rs)
               THEN acc ELSE Append(acc, Head(rs)),
               Tail(rs))

\* The Dashboard page up to the list of reports, app.py:349-393: the header
\* is drawn (351-353), then line 356 needs the user, then the reports the
\* database returns are merged with the session's.
Dashboard ==
    /\ pc = "page"
    /\ page' = "Dashboard"
    /\ last_active' = clock
    /\ IF user = NoUser
       THEN pc' = "idle" /\ UNCHANGED reports
       ELSE /\ pc' = "rows"
            /\ \E db \in {<<>>} \cup {<<r>> : r \in SessionReports} :
                   reports' = Merge(db, reports)
    /\ UNCHANGED <<user, chat_history, delete_candidate, clock, event>>
    /\ UNCHANGED <<run, loaderVars, normVars, reportingVars, downloadVars>>

\* The reports the loop of app.py:409 draws (filters on "All").
Drawn == {reports[i] : i \in 1..Len(reports)}

\* A run of the loop in which no button of the delete flow is the event, or
\* the button is not drawn.
RenderRows ==
    /\ pc = "rows"
    /\ \/ event.widget \notin {"delete", "confirm", "cancel"}
       \/ event.widget = "delete" /\ event.row \notin Drawn
       \/ event.widget \in {"confirm", "cancel"} /\ delete_candidate \notin Drawn
    /\ page' = IF delete_candidate \in Drawn THEN DeleteWarning ELSE page
    /\ pc' = "idle"
    /\ UNCHANGED <<user, chat_history, last_active, delete_candidate, clock, event>>
    /\ UNCHANGED <<reports, run, loaderVars, normVars, reportingVars, downloadVars>>

\* "Delete Record" of a drawn report, app.py:445-452; the warning and its
\* two buttons are drawn (455-457) and neither is the event of this run.
DeleteRecord ==
    /\ pc = "rows"
    /\ event.widget = "delete"
    /\ event.row \in Drawn
    /\ delete_candidate' = event.row
    /\ page' = DeleteWarning
    /\ pc' = "idle"
    /\ UNCHANGED <<user, chat_history, last_active, clock, event>>
    /\ UNCHANGED <<reports, run, loaderVars, normVars, reportingVars, downloadVars>>

ConfirmDeleteByPatient ==
    /\ pc = "rows"
    /\ event.widget = "confirm"
    /\ delete_candidate \in Drawn
    /\ reports' = SelectSeq(reports, LAMBDA rr : rr.pid # delete_candidate.pid)
    /\ delete_candidate' = NoCandidate
    /\ last_active' = clock
    /\ page' = DeleteWarning
    /\ pc' = "idle"
    /\ UNCHANGED <<user, chat_history, clock, event>>
    /\ UNCHANGED <<run, loaderVars, normVars, reportingVars, downloadVars>>

\* "Confirm Delete", app.py:458-493, drawn for the report the candidate
\* matches (455).  The database delete (461-473) does not touch the session.
\* If safe_rerun returns, the rest of the loop finds no candidate.
ConfirmDelete ==
    /\ pc = "rows"
    /\ event.widget = "confirm"
    /\ delete_candidate \in Drawn
    /\ reports' = SelectSeq(reports, LAMBDA rr : ~(/\ rr.pid = delete_candidate.pid
                                                   /\ rr.condition = delete_candidate.condition
                                                   /\ rr.date = delete_candidate.date))
    /\ delete_candidate' = NoCandidate
    /\ last_active' = clock
    /\ page' = DeleteWarning
    /\ pc' = "idle"
    /\ UNCHANGED <<user, chat_history, clock, event>>
    /\ UNCHANGED <<run, loaderVars, normVars, reportingVars, downloadVars>>

\* "Cancel", app.py:495-497.
CancelDelete ==
    /\ pc = "rows"
    /\ event.widget = "cancel"
    /\ delete_candidate \in Drawn
    /\ delete_candidate' = NoCandidate
    /\ page' = DeleteWarning
    /\ pc' = "idle"
    /\ UNCHANGED <<user, chat_history, last_active, clock, event>>
    /\ UNCHANGED <<reports, run, loaderVars, normVars, reportingVars, downloadVars>>

\* The Health Scan page, app.py:516-817; a Predict button appends the new
\* report unless its (Patient ID, Condition, Date) is in the list (638-640).
HealthScan ==
    /\ pc = "page"
    /\ page' = "Health Scan"
    /\ last_active' = clock
    /\ IF event.widget = "predict"
       THEN \E r \in SessionReports :
               reports' = IF r \in Drawn THEN reports ELSE Append(reports, r)
       ELSE UNCHANGED reports
    /\ pc' = "idle"
    /\ UNCHANGED <<user, chat_history, delete_candidate, clock, event>>
    /\ UNCHANGED <<run, loaderVars, normVars, reportingVars, downloadVars>>

\* The Doctor Chatbot page, app.py:820-926: Send appends the question and
\* the reply (883, 915), Clear empties the history (924-926).
Chatbot ==
    /\ pc = "page"
    /\ page' = "Doctor Chatbot"
    /\ last_active' = clock
    /\ chat_history' =
          IF event.widget = "send" /\ Len(chat_history) < MaxChat
          THEN chat_history \o <<"You", "Doctor">>
          ELSE IF event.widget = "clear" THEN <<>>
          ELSE chat_history
    /\ pc' = "idle"
    /\ UNCHANGED <<user, delete_candidate, clock, event, reports>>
    /\ UNCHANGED <<run, loaderVars, normVars, reportingVars, downloadVars>>

IdleApp == IdleDownload /\ InitSession

(***************************************************************************)
(* Specifications                                                          *)
(***************************************************************************)
Init == InitLoader /\ IdleNorm /\ IdleFlow /\ IdleReporting /\ IdleApp
Next == LoadKey \/ LoadReturn \/ Rerun
Spec == Init /\ [][Next]_vars

InitN == InitLoader /\ InitNorm /\ IdleFlow /\ IdleReporting /\ IdleApp
NextN == CallSafePredictProba
SpecNorm == InitN /\ [][NextN]_vars

InitF == InitFlow /\ IdleNorm /\ IdleReporting /\ IdleApp
NextF == PredictHeart \/ PredictDiabetes \/ PredictKidney
SpecFlow == InitF /\ [][NextF]_vars

InitG == InitLoader /\ IdleNorm /\ IdleFlow /\ InitTables /\ InitFlag /\ IdleReport /\ IdleApp
NextG == CallCheckFlag
SpecFlag == InitG /\ [][NextG]_vars

InitR == InitLoader /\ IdleNorm /\ IdleFlow /\ InitTables /\ IdleFlag /\ InitReport /\ IdleApp
NextR == CallGeneratePdfReport
SpecReport == InitR /\ [][NextR]_vars

\* One call of any of the four components, the others at rest.
InitC == Init \/ InitN \/ InitG \/ InitR
NextC ==
    \/ IdleNorm /\ IdleFlag /\ IdleReport /\ Next
    \/ InitLoader /\ IdleFlag /\ IdleReport /\ NextN
    \/ InitLoader /\ IdleNorm /\ IdleReport /\ NextG
    \/ InitLoader /\ IdleNorm /\ IdleFlag /\ NextR
SpecCalls == InitC /\ [][NextC]_vars

InitD == InitLoader /\ IdleNorm /\ IdleFlow /\ IdleReporting /\ InitDownload /\ InitSession
NextD == CallDownloadModelFromGdrive \/ DownloadModel
SpecDownload == InitD /\ [][NextD]_vars

InitS == InitLoader /\ IdleNorm /\ IdleFlow /\ IdleReporting /\ IdleApp
NextS ==
    \/ StartRun \/ AuthGate \/ CheckAutoLogout \/ Sidebar
    \/ Dashboard \/ RenderRows \/ DeleteRecord \/ ConfirmDelete \/ CancelDelete
    \/ HealthScan \/ Chatbot
SpecSession == InitS /\ [][NextS]_vars

(***************************************************************************)
(* Properties of the Loader, checked under Spec                            *)
(***************************************************************************)
\* An iteration of load_models has handled the file `cand`.
Handled == idx >= 1

BothLoadersFailed ==
    /\ Handled
    /\ cand.exists
    /\ sniff = "Plausible"
    /\ ~cand.jobOK /\ ~cand.pickOK

\* C1: when a sniffer-accepted artifact fails both joblib.load and pickle.load,
\* the error _safe_load raises carries both underlying failures, the joblib
\* error and the pickle error.
C1_BothCausesCarried ==
    BothLoadersFailed => {"joblib-error", "pickle-error"} \subseteq loadExc.carries

Deserialized ==
    /\ Handled
    /\ cand.exists
    /\ sniff = "Plausible"
    /\ (cand.jobOK \/ cand.pickOK)

\* C2: every slot of load_models is None or an object exposing predict, for
\* every file found at its path; an object that deserializes but lacks predict
\* is rejected, and the triple returned has all three slots.
C2_SlotsNoneOrPredict ==
    /\ \A k \in DOMAIN models : models[k] = None \/ HasAttr(models[k], "predict")
    /\ (Deserialized /\ ~HasAttr(cand.obj, "predict")) => models[Keys[idx]] = None
    /\ loaded => \A i \in 1..Len(Keys) :
                    ModelsGet(Keys[i]) = None \/ HasAttr(ModelsGet(Keys[i]), "predict")

C2_Witness ==
    /\ idx = Len(Keys)
    /\ Deserialized
    /\ ~cand.obj.none
    /\ cand.obj.caps = {"predict_proba", "decision_function"}
    /\ models["kidney"] = None
    /\ models["heart"] = Obj({"predict"})

\* C9: for every file smaller than 100 bytes the Sniffer answers Implausible,
\* whatever its header, a pickle magic byte included.
C9_SmallFilesImplausible ==
    (Handled /\ cand.exists /\ cand.size < 100) => sniff = "Implausible"

C9_Witness ==
    /\ Handled
    /\ cand.exists
    /\ cand.size = 99
    /\ cand.readable
    /\ cand.head = PickleHead
    /\ cand.jobOK
    /\ sniff = "Implausible"

\* C10: for every file whose header begins with '<!DO', '<htm', '<?xm' or '{'
\* the Sniffer answers Implausible, whatever the file's size.
C10_TextSignaturesImplausible ==
    (/\ Handled
     /\ cand.exists
     /\ \E sig \in {<<60, 33, 68, 79>>, <<60, 104, 116, 109>>, <<60, 63, 120, 109>>, <<123>>} :
            StartsWith(cand.head, sig))
    => sniff = "Implausible"

C10_Witness ==
    /\ Handled
    /\ cand.exists
    /\ cand.size > 100
    /\ cand.readable
    /\ cand.head = JsonHead
    /\ sniff = "Implausible"

\* The place of an operation in the iteration's sequence, 0 when absent.
OpAt(op) ==
    IF \E i \in 1..Len(loadOps) : loadOps[i] = op
    THEN CHOOSE i \in 1..Len(loadOps) : loadOps[i] = op
    ELSE 0

\* C22: a file _safe_load does not find fails with FileNotFoundError, and a
\* file the sniffer rejects with ValueError, before any deserialization;
\* joblib.load comes after the sniffer accepted, and pickle.load is attempted
\* exactly when joblib.load was attempted and failed, after it.
C22_LoaderStepsOrdered ==
    Handled =>
        /\ loadExc.type = "FileNotFoundError"
              => (OpAt("sniff") = 0 /\ OpAt("joblib.load") = 0 /\ OpAt("pickle.load") = 0)
        /\ sniff = "Implausible"
              => (/\ loadExc.type = "ValueError"
                  /\ OpAt("joblib.load") = 0 /\ OpAt("pickle.load") = 0)
        /\ OpAt("joblib.load") > 0
              => (sniff = "Plausible" /\ 0 < OpAt("sniff") /\ OpAt("sniff") < OpAt("joblib.load"))
        /\ OpAt("pickle.load") > 0
              <=> (OpAt("joblib.load") > 0 /\ ~cand.jobOK)
        /\ OpAt("pickle.load") > 0 => OpAt("joblib.load") < OpAt("pickle.load")

C22_Witness ==
    /\ Handled
    /\ cand.exists
    /\ ~cand.jobOK
    /\ cand.pickOK
    /\ loadOps = <<"exists", "exists", "sniff", "joblib.load", "pickle.load">>
    /\ loadExc = NoExc

BadSignatures == {<<60, 33, 68, 79>>, <<60, 104, 116, 109>>, <<60, 63, 120, 109>>, <<123>>}

NoBadSignature ==
    /\ Handled
    /\ cand.exists
    /\ cand.size >= 100
    /\ ~\E sig \in BadSignatures : StartsWith(cand.head, sig)

SlotFailed ==
    loadExc # NoExc \/ (cand.exists /\ ~HasAttr(cand.obj, "predict"))

\* C27: every iteration of load_models ends with its slot set, to None when
\* the artifact is missing or failed, and leaves the slots of the artifacts
\* handled before as they were; the call returns after all three artifacts
\* were handled, whatever failed.
C27_FailureStaysInItsSlot ==
    [][/\ idx' # idx
          => /\ idx' = idx + 1
             /\ \A k \in DOMAIN models : k \in DOMAIN models' /\ models'[k] = models[k]
             /\ Keys[idx'] \in DOMAIN models'
             /\ (SlotFailed' \/ ~cand'.exists) => models'[Keys[idx']] = None
             /\ ~(SlotFailed' \/ ~cand'.exists) => models'[Keys[idx']] = cand'.obj
       /\ loaded' => DOMAIN models' = {Keys[i] : i \in 1..Len(Keys)}]_vars

C27_Witness ==
    /\ idx = Len(Keys)
    /\ loadExc.type = "UnboundLocalError"
    /\ models["kidney"] = None
    /\ ~models["heart"].none
    /\ ~models["diabetes"].none

\* C23: across the script runs of one process each model artifact is loaded
\* at most once; once load_models has returned, every later run gets the same
\* slots, and a slot left None by a failed load stays None and is not retried.
C23_LoadedOncePerProcess ==
    [][/\ \A k \in DOMAIN attempts : attempts'[k] <= 1
       /\ loaded => /\ loaded'
                    /\ models' = models
                    /\ attempts' = attempts]_vars

\* A later run has been served after a load that left one slot None and
\* another with a model.
C23_Witness ==
    /\ runs > 1
    /\ \E k \in DOMAIN models : models[k] = None
    /\ \E k \in DOMAIN models : models[k] # None

(***************************************************************************)
(* Properties of the Normalizer, checked under SpecNorm                    *)
(***************************************************************************)
InUnit(v) == 0 <= v /\ v <= 1000

\* Every number of an operation's output.
NumbersOf(out) ==
    IF out.kind = "array"
    THEN UNION {{out.rows[i][j] : j \in 1..Len(out.rows[i])} : i \in 1..Len(out.rows)}
    ELSE {}

RetNumbers == {nOut.ret.vals[i] : i \in 1..Len(nOut.ret.vals)}

\* C3: safe_predict_proba never propagates an exception: whatever fails in
\* the model's operation or while its output is processed, the call returns
\* None.
C3_NeverRaises ==
    nOut.called =>
        /\ nOut.raised = "none"
        /\ NormBody(nModel, nProba, nDecision).exc # "none" => nOut.ret = RetNone

C3_Witness ==
    /\ nOut.called
    /\ nOut.ret = RetNone
    /\ NormBody(nModel, nProba, nDecision).exc = "IndexError"
    /\ nProba.kind = "array"

TwoDim(out) == out.kind = "array" /\ out.ndim = 2

\* C6: for a model exposing predict_proba whose output has two columns, the
\* Normalizer returns exactly column 1 of it, unchanged, whether or not the
\* model exposes decision_function; for a one-column output, that column.
C6_PositiveColumn ==
    (nOut.called /\ HasAttr(nModel, "predict_proba") /\ TwoDim(nProba)
        /\ nProba.ncols \in {1, 2})
    => /\ nOut.ret.kind = "array"
       /\ Len(nOut.ret.vals) = Len(nProba.rows)
       /\ \A i \in 1..Len(nProba.rows) :
            nOut.ret.vals[i] = nProba.rows[i][IF nProba.ncols = 2 THEN 2 ELSE 1]
       /\ nOut.calls = <<"predict_proba">>

C6_Witness ==
    /\ nOut.called
    /\ nModel.caps = Caps
    /\ TwoDim(nProba)
    /\ nProba.rows = <<(<<0, 700>>)>>
    /\ nOut.ret = Ret("array", <<700>>)

\* C7: for a model exposing decision_function and no predict_proba, the
\* Normalizer returns the logistic squash 1/(1+e^-x) of each margin x.
C7_LogisticOfEachMargin ==
    (nOut.called /\ ~HasAttr(nModel, "predict_proba")
        /\ HasAttr(nModel, "decision_function") /\ nDecision.kind = "array")
    => nOut.ret = Ret("list", [i \in 1..Len(nDecision.rows) |->
                                 1000000 \div (1000 + EPow(-nDecision.rows[i][1]))])

\* C8: for a model exposing neither predict_proba nor decision_function, and
\* for an absent model, the Normalizer returns None and calls no operation of
\* the model.
C8_NeitherIsUnavailable ==
    (nOut.called /\ ~HasAttr(nModel, "predict_proba")
        /\ ~HasAttr(nModel, "decision_function"))
    => /\ nOut.ret = RetNone
       /\ nOut.calls = <<>>
       /\ nOut.raised = "none"

C8_Witness ==
    /\ nOut.called
    /\ nModel = Obj({"predict"})
    /\ nOut.ret = RetNone
    /\ nOut.calls = <<>>

(***************************************************************************)
(* Properties of the prediction flows, checked under SpecFlow              *)
(***************************************************************************)
\* A run got past the patient-details check with no usable probability: the
\* model of the condition is absent, or safe_predict_proba returned None.
NoProbability ==
    /\ run.outcome \notin {"idle", "stopped"}
    /\ \/ \E i \in 1..Len(Keys) :
            /\ run.cond = <<"Diabetes", "Heart", "Kidney">>[i]
            /\ models[Keys[i]] = None
       \/ run.normalized = "None"

\* A risk field that says the risk is not known, as opposed to any number.
RiskUnknown == [known |-> FALSE, value |-> 0]

\* C5: when the model of the selected condition is missing or invalid, or the
\* Normalizer returns None, the flow still produces a report, and the report's
\* risk is recorded as unknown, not as a number.
C5_RiskUnknownWithoutModel ==
    NoProbability => (run.outcome = "report" /\ run.report.risk = RiskUnknown)

(***************************************************************************)
(* Properties of the Flagger, checked under SpecFlag                       *)
(***************************************************************************)
Flagged == fOut # NotFlagged

\* The spellings of "Yes" in every letter case.
YesSpellings == {"yes", "yeS", "yEs", "yES", "Yes", "YeS", "YEs", "YES"}

IsYes(v) ==
    /\ v.t = "str"
    /\ SelectSeq(v.text, LAMBDA c : c \notin Whitespace) \in {Chars(w) : w \in YesSpellings}

\* C11: for the value "Yes", in any letter case and with surrounding
\* whitespace, check_flag returns High for every parameter name, also for one
\* with a numeric range: the categorical rule comes before the range rule.
C11_YesIsHighForEveryParameter ==
    (Flagged /\ IsYes(fValue)) => fOut = Flag("High")

C11_Witness ==
    /\ Flagged
    /\ fParam = "Cholesterol"
    /\ fValue.text = <<" ", "Y", "E", "S", " ">>
    /\ fOut = Flag("High")

\* A number passed as an int or a float, and its value in thousandths.
IsNumber(v) == v.t \in {"int", "float"}
Milli(v) == IF v.t = "int" THEN v.num * 1000 ELSE v.num

\* The parameters with a range of the form "< X", X in thousandths.
UpperBoundOf == ("Cholesterol" :> 200000) @@ ("Fasting Blood Sugar" :> 100000)

ExpectedUpperBound(p, v) ==
    IF Milli(v) > UpperBoundOf[p] THEN Flag("High") ELSE Flag("Normal")

\* C12 as stated: for every parameter with a range "< X" and every numeric
\* value v, check_flag returns High when v exceeds X and Normal otherwise.
C12_UpperBoundEveryNumber ==
    (Flagged /\ fParam \in DOMAIN UpperBoundOf /\ IsNumber(fValue))
    => fOut = ExpectedUpperBound(fParam, fValue)

\* C12 amended: the same for every numeric value except the integer 1, whose
\* text "1" the categorical rule takes first and flags High.
C12_UpperBoundExceptOne ==
    (Flagged /\ fParam \in DOMAIN UpperBoundOf /\ IsNumber(fValue))
    => fOut = IF fValue = PyInt(1) THEN Flag("High")
              ELSE ExpectedUpperBound(fParam, fValue)

C12_Witness ==
    /\ Flagged
    /\ fParam = "Cholesterol"
    /\ fValue = PyInt(250)
    /\ fOut = Flag("High")

\* The parameters with an interval range, <<low, high>> in thousandths.
IntervalOf ==
    ("Chest Pain Type" :> <<0, 3000>>) @@
    ("Resting Blood Pressure" :> <<90000, 120000>>) @@
    ("Resting ECG" :> <<0, 2000>>) @@
    ("Max Heart Rate" :> <<60000, 100000>>) @@
    ("ST Depression" :> <<0, 1000>>) @@
    ("ST Slope" :> <<0, 2000>>) @@
    ("Major Vessels Colored" :> <<0, 1000>>) @@
    ("Thalassemia" :> <<0, 1000>>) @@
    ("BMI" :> <<18500, 24900>>) @@
    ("Blood Glucose" :> <<70000, 99000>>) @@
    ("HbA1c" :> <<4000, 5600>>) @@
    ("Blood Pressure" :> <<90000, 120000>>) @@
    ("Specific Gravity" :> <<1005, 1030>>) @@
    ("Albumin" :> <<0, 1000>>) @@
    ("Sugar" :> <<0, 1000>>) @@
    ("Blood Glucose Random" :> <<70000, 140000>>) @@
    ("Blood Urea" :> <<7000, 20000>>) @@
    ("Serum Creatinine" :> <<600, 1200>>) @@
    ("Sodium" :> <<135000, 145000>>) @@
    ("Potassium" :> <<3500, 5000>>) @@
    ("Haemoglobin" :> <<12000, 17000>>) @@
    ("Packed Cell Volume" :> <<38000, 52000>>) @@
    ("White Blood Cell Count" :> <<4000000, 11000000>>) @@
    ("Red Blood Cell Count" :> <<4500, 6000>>)

ExpectedInterval(p, v) ==
    IF Milli(v) < IntervalOf[p][1] THEN Flag("Low")
    ELSE IF Milli(v) > IntervalOf[p][2] THEN Flag("High")
    ELSE Flag("Normal")

\* C13 as stated: for every parameter with an interval [low, high] and every
\* numeric value v, check_flag returns Low below low, High above high and
\* Normal otherwise, both endpoints included.
C13_IntervalEveryNumber ==
    (Flagged /\ fParam \in DOMAIN IntervalOf /\ IsNumber(fValue))
    => fOut = ExpectedInterval(fParam, fValue)

\* C13 amended: the same for every numeric value except the integers 1 and 0,
\* whose texts "1" and "0" the categorical rule takes first: 1 is High and 0
\* is Normal whatever the interval.
C13_IntervalExceptOneAndZero ==
    (Flagged /\ fParam \in DOMAIN IntervalOf /\ IsNumber(fValue))
    => fOut = IF fValue = PyInt(1) THEN Flag("High")
              ELSE IF fValue = PyInt(0) THEN Flag("Normal")
              ELSE ExpectedInterval(fParam, fValue)

C13_Witness ==
    /\ Flagged
    /\ fParam = "Resting Blood Pressure"
    /\ fValue = PyInt(30)
    /\ fOut = Flag("Low")

\* Texts that are in neither vocabulary and that float() rejects.
Unparseable == {"abc", "None", "present", "1.2.3", ".", "12a", "2 0"}

\* C14: check_flag never raises and returns one of Normal, High and Low for
\* every parameter name and every value; a value that is in neither
\* vocabulary and is not a number is flagged Normal.
C14_TotalAndNormalByDefault ==
    Flagged =>
        /\ fOut.exc = "none"
        /\ fOut.ret \in {"Normal", "High", "Low"}
        /\ (\E t \in Unparseable : fValue \in Padded(t)) => fOut = Flag("Normal")

C14_Witness ==
    /\ Flagged
    /\ fParam = "Appetite"
    /\ fValue = PyStr("12a")
    /\ fOut = Flag("Normal")

\* The registered parameters whose range text is no numeric range.
CategoricalParams ==
    {"Exercise Induced Angina", "Hypertension", "Red Blood Cells", "Pus Cell",
     "Pus Cell Clumps", "Bacteria", "Diabetes Mellitus", "Coronary Artery Disease",
     "Appetite", "Peda Edema", "Anaemia"}

HeuristicHigh(v) ==
    /\ v.t # "none"
    /\ Lower(Strip(Str(v))) \in {Chars(w) : w \in {"yes", "poor", "abnormal", "high", "true", "1"}}

\* C15: for a parameter without a registered range, or with a categorical
\* one ("No", "Normal", "-"), check_flag returns Normal for every value the
\* categorical heuristic has not flagged High.
C15_NormalWithoutNumericRange ==
    (/\ Flagged
     /\ (fParam \in CategoricalParams \/ fParam \notin DOMAIN NormalRanges)
     /\ ~HeuristicHigh(fValue))
    => fOut = Flag("Normal")

C15_Witness ==
    /\ Flagged
    /\ fParam = "Age"
    /\ fValue = PyInt(250)
    /\ fOut = Flag("Normal")

(***************************************************************************)
(* Properties of the Canonicalizer and the Report Compiler, checked under  *)
(* SpecReport                                                              *)
(***************************************************************************)
Compiled == doc # NoDoc

\* The canonical name the rename table gives a key.
ExpectedName(k) == IF k \in DOMAIN RenameKeys THEN RenameKeys[k] ELSE k

\* The items of the caller's mapping whose key has the canonical name n.
ItemsNamed(n) == {i \in 1..Len(data) : ExpectedName(data[i][1]) = n}

\* C16: the canonicalized mapping has, for every key of the input, the name
\* the rename table gives it, or the key itself when the table has no entry;
\* every value in it is the unchanged value of an input item of that name,
\* and building it fails on no key.
C16_RenamesKnownPassesUnknown ==
    Compiled =>
        /\ doc.exc = "none"
        /\ DictKeys(doc.fixed) = {ExpectedName(data[i][1]) : i \in 1..Len(data)}
        /\ \A j \in 1..Len(doc.fixed) :
              \E i \in ItemsNamed(doc.fixed[j][1]) : doc.fixed[j][2] = data[i][2]
        /\ \A i \in 1..Len(data) :
              ItemsNamed(ExpectedName(data[i][1])) = {i}
              => <<ExpectedName(data[i][1]), data[i][2]>>
                    \in {doc.fixed[j] : j \in 1..Len(doc.fixed)}

C16_Witness ==
    /\ Compiled
    /\ data = << <<"chol", PyInt(250)>>, <<"Risk %", PyFloat(72300)>> >>
    /\ doc.fixed = << <<"Cholesterol", PyInt(250)>>, <<"Risk %", PyFloat(72300)>> >>

CanonicalNames == {RenameKeys[k] : k \in DOMAIN RenameKeys} \cup DOMAIN NormalRanges

\* C17: the Canonicalizer returns every canonical name (every value of the
\* rename table, every key of the range table) unchanged, and canonicalizing
\* a key or a mapping twice gives what canonicalizing it once gives.
C17_CanonicalizerIdempotent ==
    Compiled =>
        /\ \A n \in CanonicalNames : CanonName(n) = n
        /\ \A i \in 1..Len(data) :
              CanonName(CanonName(data[i][1])) = CanonName(data[i][1])
        /\ Canonicalize(doc.fixed) = doc.fixed

C17_Witness ==
    /\ Compiled
    /\ Len(data) = 2
    /\ data[1][1] = "Cholesterol"
    /\ data[2][1] = "hyt"
    /\ DictKeys(doc.fixed) = {"Cholesterol", "Hypertension"}
    /\ Canonicalize(doc.fixed) = doc.fixed

\* A cell shows a value: the text of a str, the decimal digits of a number,
\* "-" for None.
Shows(cell, v) ==
    IF v.t = "none" THEN cell = Chars("-")
    ELSE IF v.t = "str" THEN cell = v.text
    ELSE ParseFloat(cell) = Num("finite", Milli(v))

\* C18: the results table has a row for a canonicalized parameter exactly
\* when the parameter has a registered range, and each row holds the
\* canonical name, the value, the registered range text and the status
\* check_flag gives that name and value.
C18_RowsExactlyForRegisteredRanges ==
    (Compiled /\ doc.built) =>
        /\ {doc.rows[j].name : j \in 1..Len(doc.rows)}
              = DictKeys(doc.fixed) \cap DOMAIN NormalRanges
        /\ \A j \in 1..Len(doc.rows) :
              \E i \in 1..Len(doc.fixed) :
                  /\ doc.fixed[i][1] = doc.rows[j].name
                  /\ Shows(doc.rows[j].value, doc.fixed[i][2])
                  /\ doc.rows[j].range = Chars(NormalRanges[doc.rows[j].name])
                  /\ doc.rows[j].status = CheckFlag(doc.fixed[i][1], doc.fixed[i][2]).ret
        /\ doc.message = (DictKeys(doc.fixed) \cap DOMAIN NormalRanges = {})

C18_Witness ==
    /\ Compiled
    /\ data = << <<"chol", PyInt(250)>>, <<"Risk %", PyFloat(72300)>> >>
    /\ doc.rows = << [name |-> "Cholesterol", value |-> Chars("250"),
                      range |-> Chars("< 200"), status |-> "High"] >>

\* The texts the document shows outside the results table.
MetadataTexts ==
    {doc.info[j][2] : j \in 1..Len(doc.info)} \cup {doc.header, doc.diagnosis}

\* C19: every parameter of the input mapping without a registered range is
\* retained in the document's identity and metadata fields.
C19_UnrangedParametersRetained ==
    (Compiled /\ doc.built) =>
        \A i \in 1..Len(data) :
            ExpectedName(data[i][1]) \notin DOMAIN NormalRanges
            => \E cell \in MetadataTexts : Shows(cell, data[i][2])

RowNames(rows) == [j \in 1..Len(rows) |-> rows[j].name]

\* C20: the order of the rows of the results table is the same for every
\* order in which the keys appear in the input mapping.
C20_RowOrderIndependentOfKeyOrder ==
    (Compiled /\ doc.built) =>
        \A p \in Permutations(1..Len(data)) :
            RowNames(ResultRows(Canonicalize([i \in 1..Len(data) |-> data[p[i]]])))
                = RowNames(doc.rows)

\* C21: compiling a report from the canonical parameter Cholesterol = 250 and
\* the risk 72.3 gives a document whose results table is the one row
\* (Cholesterol, 250, "< 200", High) and which holds the risk 72.3.
C21_EndToEndCholesterolAndRisk ==
    (/\ Compiled
     /\ doc.built
     /\ {data[i] : i \in 1..Len(data)}
            = {<<"Cholesterol", PyInt(250)>>, <<"Risk %", PyFloat(72300)>>})
    => /\ doc.rows = << [name |-> "Cholesterol", value |-> Chars("250"),
                         range |-> Chars("< 200"), status |-> "High"] >>
       /\ \E cell \in MetadataTexts : Shows(cell, PyFloat(72300))

\* C26: when several keys of the input canonicalize to one name, the
\* canonicalized mapping has exactly one item of that name, its value is that
\* of the last such key of the input, and the results table has at most one
\* row of that name.
C26_LastCollidingKeyWins ==
    Compiled =>
        \A n \in {ExpectedName(data[i][1]) : i \in 1..Len(data)} :
            /\ Cardinality({j \in 1..Len(doc.fixed) : doc.fixed[j][1] = n}) = 1
            /\ DictGet(doc.fixed, n)
                  = data[CHOOSE i \in ItemsNamed(n) : \A k \in ItemsNamed(n) : k <= i][2]
            /\ Cardinality({j \in 1..Len(doc.rows) : doc.rows[j].name = n}) <= 1

C26_Witness ==
    /\ Compiled
    /\ data = << <<"hyt", PyInt(250)>>, <<"htn", PyStr("Yes")>> >>
    /\ doc.fixed = << <<"Hypertension", PyStr("Yes")>> >>
    /\ Len(doc.rows) = 1
    /\ doc.rows[1].value = Chars("Yes")


(***************************************************************************)
(* Frame of the four components, checked under SpecCalls                   *)
(***************************************************************************)
\* C25: no call of check_flag or generate_pdf_report changes the range
\* table, the rename table or the caller's mapping, and no step of
\* safe_predict_proba or load_models changes a model that has been loaded.
C25_SharedStateNeverMutated ==
    [][/\ normal_ranges' = normal_ranges
       /\ rename_keys' = rename_keys
       /\ data' = data
       /\ nModel' = nModel
       /\ \A k \in DOMAIN models :
             models[k] # None => k \in DOMAIN models' /\ models'[k] = models[k]]_vars

\* A report has been compiled from a mapping that holds a raw key, which the
\* compiler renamed in its own copy.
C25_Witness ==
    /\ doc.exc = "none"
    /\ \E i \in 1..Len(data) : CanonName(data[i][1]) # data[i][1]

(***************************************************************************)
(* Properties of the auto-download, checked under SpecDownload             *)
(***************************************************************************)
\* C28: over any sequence of calls download_model_from_gdrive attempts a
\* download only when no file is at the target path; when a file is there,
\* undersized or not, the call returns True, downloads nothing and leaves
\* the file as it is.
C28_ExistingFileAlwaysTrue ==
    \A i \in 1..Len(dlLog) :
        /\ dlLog[i].attempted => ~dlLog[i].before.exists
        /\ dlLog[i].before.exists =>
              /\ dlLog[i].ret = "True"
              /\ ~dlLog[i].attempted
              /\ dlLog[i].after = dlLog[i].before

\* C28 as the code has it: the same, for the calls in which gdown could be
\* imported; without gdown the call returns False before it looks at the path.
C28_ExistingFileTrueWithGdown ==
    \A i \in 1..Len(dlLog) :
        /\ dlLog[i].attempted => ~dlLog[i].before.exists
        /\ dlLog[i].before.exists /\ dlLog[i].imported =>
              /\ dlLog[i].ret = "True"
              /\ ~dlLog[i].attempted
              /\ dlLog[i].after = dlLog[i].before

\* A download that returned False left an undersized file, and a later call
\* found it and returned True.
C28_Witness ==
    \E i \in 1..Len(dlLog), j \in 1..Len(dlLog) :
        /\ i < j
        /\ dlLog[i].attempted /\ dlLog[i].ret = "False"
        /\ dlLog[i].after.exists /\ dlLog[i].after.size <= MinDownloadSize
        /\ dlLog[j].before = dlLog[i].after
        /\ dlLog[j].imported /\ dlLog[j].ret = "True"

(***************************************************************************)
(* Properties of the session, checked under SpecSession                    *)
(***************************************************************************)
\* C29: a report leaves the session's list only in the step of a run whose
\* event is Confirm Delete and whose pending candidate has that report's
\* Patient ID, Condition and Date; the Delete Record handler only records
\* the candidate, the Cancel handler leaves the list as it is, and both
\* Confirm and Cancel clear the candidate.
C29_RemovedOnlyByMatchingConfirm ==
    [][/\ \A r \in Drawn :
             r \notin {reports'[i] : i \in 1..Len(reports')} =>
                 /\ event.widget = "confirm"
                 /\ delete_candidate.pid = r.pid
                 /\ delete_candidate.condition = r.condition
                 /\ delete_candidate.date = r.date
       /\ pc = "rows" /\ event.widget = "delete" /\ event.row \in Drawn =>
             reports' = reports /\ delete_candidate' = event.row
       /\ pc = "rows" /\ event.widget = "cancel" => reports' = reports
       /\ pc = "rows" /\ event.widget \in {"confirm", "cancel"}
             /\ delete_candidate \in Drawn => delete_candidate' = NoCandidate]_vars

\* Confirm Delete has removed the candidate's report and left another report
\* of the same patient in the list.
C29_Witness ==
    /\ pc = "idle"
    /\ page = DeleteWarning
    /\ event.widget = "confirm"
    /\ delete_candidate = NoCandidate
    /\ \E i \in 1..Len(reports) : reports[i].pid = "MG-1"

\* C30: no page content is rendered while the session has no logged-in
\* user; a timeout or a Logout sets the user to None and empties the chat
\* history before any page content of the run.
C30_NoContentWithoutUser ==
    [][/\ page' # NoPage => user' # NoUser
       /\ \/ /\ pc = "check"
             /\ user # NoUser /\ last_active # 0
             /\ clock - last_active > TIMEOUT_MINUTES
          \/ pc = "sidebar" /\ user # NoUser /\ event.widget = "logout"
          => user' = NoUser /\ chat_history' = <<>> /\ page' = NoPage]_vars
====
